---- MODULE Spec2Model ----
(***************************************************************************)
(* The subscription store of the Follow renderer (SubscriptionActions and  *)
(* useSubscriptionStore) as a state machine.  JavaScript runs one          *)
(* synchronous block at a time, so every action below is one synchronous   *)
(* block: the part of a method up to its first await, or the continuation  *)
(* that runs when an awaited request resolves or rejects.                  *)
(*                                                                         *)
(* Strings are sequences of one-character strings, so that                 *)
(* capitalizeFirstLetter is a computation.  null, undefined and "" are all *)
(* the empty sequence: the code only ever tests them with ! or ===.        *)
(***************************************************************************)
EXTENDS Bags, FiniteSets, Integers, Sequences, TLC

VARIABLES
    data,          \* useSubscriptionStore.data: feedId -> SubscriptionFlatModel
    feedIdByView,  \* useSubscriptionStore.feedIdByView: view -> feedId[]
    feedStore,     \* the feed store read by getFeedById: feedId -> feed
    unread,        \* the unread-count store: feedId -> count
    entries,       \* the entry store: feedId -> timestamps of its unread entries
    calls,         \* bag of the asynchronous calls that wait for the remote API
    ev,            \* the synchronous block that ran last, with its arguments
    io,            \* requests to persistence and to the server made by that block
    failedList,    \* the Media module's failedList: srcs whose proxy URL failed
    media          \* the mounted Media components: slot -> state of MediaImpl

vars == <<data, feedIdByView, feedStore, unread, entries, calls, ev, io, failedList, media>>

\* the state of the Media components
mediaVars == <<failedList, media>>

----------------------------------------------------------------------------
(* Bounds of the model *)

\* longest view bucket the model follows
MaxBucketLen == 2
\* most asynchronous calls waiting at once
MaxCalls == 2
\* largest unread count the model follows
MaxUnread == 1
\* most Media components mounted at once
MaxMedia == 2

----------------------------------------------------------------------------
(* Values *)

Null == <<>>

F1 == <<"f", "1">>
F2 == <<"f", "2">>
FeedIds == {F1, F2}

\* FeedViewType.Articles and FeedViewType.SocialMedia
Views == {0, 1}
\* fetchByView() without a view
NoView == -1

CatA == <<"A">>
CatB == <<"B">>

UrlBlog == <<"h", "t", "t", "p", "s", ":", "/", "/", "b", ".", "e", "x", ".", "c", "o">>
UrlLocalhost == <<"h", "t", "t", "p", ":", "/", "/", "l", "o", "c", "a", "l", "h", "o", "s", "t">>
DomainEx == <<"e", "x", ".", "c", "o">>

\* tldts parse(siteUrl).domain: the registrable domain, null when there is none
ParseDomain(siteUrl) ==
    IF siteUrl = UrlBlog THEN DomainEx ELSE Null

ToUpperCase(ch) ==
    CASE ch = "e" -> "E"
      [] ch = "f" -> "F"
      [] ch = "l" -> "L"
      [] OTHER -> ch

capitalizeFirstLetter(s) ==
    IF s = <<>> THEN s ELSE <<ToUpperCase(Head(s))>> \o Tail(s)

\* the site URLs the server may hold for a feed
SiteUrlsOf(f) ==
    IF f = F1 THEN {UrlBlog} ELSE {Null, UrlLocalhost}

\* SubscriptionModel records the subscriptions endpoint can return for a query
ServerSubs(view) ==
    { [feedId |-> f, view |-> v, category |-> c, feeds |-> [id |-> f, siteUrl |-> u]] :
        f \in FeedIds, v \in (IF view = NoView THEN Views ELSE {view}),
        c \in {Null, CatA}, u \in {UrlBlog, Null, UrlLocalhost} }

RealServerSubs(view) ==
    { s \in ServerSubs(view) : s.feeds.siteUrl \in SiteUrlsOf(s.feedId) }

\* responses of the subscriptions endpoint: the server holds one subscription
\* per feedId, so a response names no feedId twice
Responses(view) ==
    { <<>> } \cup
    { <<s>> : s \in RealServerSubs(view) } \cup
    { <<s, t>> : s \in { x \in RealServerSubs(view) : x.feedId = F1 },
                 t \in { x \in RealServerSubs(view) : x.feedId = F2 } } \cup
    { <<t, s>> : s \in { x \in RealServerSubs(view) : x.feedId = F1 },
                 t \in { x \in RealServerSubs(view) : x.feedId = F2 } }

----------------------------------------------------------------------------
(* Arrays *)

Range(s) == { s[i] : i \in 1..Len(s) }

\* number of occurrences of x in s
Count(s, x) == Cardinality({ i \in 1..Len(s) : s[i] = x })

\* Array.prototype.indexOf, zero-based, -1 when x is absent
IndexOf(s, x) ==
    IF x \in Range(s)
      THEN (CHOOSE i \in 1..Len(s) : s[i] = x /\ \A j \in 1..(i - 1) : s[j] # x) - 1
      ELSE -1

\* Array.prototype.splice(start, 1): a negative start counts from the end
Splice1(s, start) ==
    LET from == IF start < 0 THEN (IF Len(s) + start < 0 THEN 0 ELSE Len(s) + start)
                ELSE (IF start > Len(s) THEN Len(s) ELSE start)
    IN IF from >= Len(s) THEN s
       ELSE SubSeq(s, 1, from) \o SubSeq(s, from + 2, Len(s))

emptyDataIdByView == [v \in Views |-> <<>>]

\* the object {} of the store's data, and of an empty feed store
EmptyRecord == [f \in {} |-> Null]

\* a partial function without the key k
Without(fn, k) == [x \in DOMAIN fn \ {k} |-> fn[x]]

\* a partial function with fn[k] set to val
With(fn, k, val) == [x \in DOMAIN fn \cup {k} |-> IF x = k THEN val ELSE fn[x]]

----------------------------------------------------------------------------
(* Pure parts of the store operations *)

\* a clone whose defaultCategory is the domain alone, with no feedId to fall
\* back on
MorphOneDomainOnly(subscription) ==
    LET parsed == ParseDomain(subscription.feeds.siteUrl)
    IN [feedId |-> subscription.feedId, view |-> subscription.view,
        category |-> subscription.category, feeds |-> subscription.feeds,
        defaultCategory |->
            IF subscription.category = Null THEN capitalizeFirstLetter(parsed) ELSE Null]

\* morphResponseData, one subscription: the clone keeps every field and gains
\* defaultCategory when there is no category (every response carries feeds)
MorphOne(subscription) ==
    LET siteUrl == subscription.feeds.siteUrl
        parsed == ParseDomain(siteUrl)
        defaultCategory ==
            IF subscription.category = Null
              THEN IF siteUrl = Null THEN subscription.feedId
                   ELSE IF parsed # Null THEN capitalizeFirstLetter(parsed)
                   ELSE subscription.feedId
              ELSE Null
    IN [feedId |-> subscription.feedId, view |-> subscription.view,
        category |-> subscription.category, feeds |-> subscription.feeds,
        defaultCategory |-> defaultCategory]

morphResponseData(res) == [i \in 1..Len(res) |-> MorphOne(res[i])]

\* omit(subscription, "feeds")
OmitFeeds(s) ==
    [feedId |-> s.feedId, view |-> s.view, category |-> s.category,
     defaultCategory |-> s.defaultCategory]

\* the producer of upsertMany: each subscription is stored and its feedId is
\* pushed onto the bucket of its view
RECURSIVE UpsertManyState(_, _)
UpsertManyState(st, subscriptions) ==
    IF subscriptions = <<>> THEN st
    ELSE LET s == Head(subscriptions)
         IN UpsertManyState(
              [data |-> With(st.data, s.feedId, OmitFeeds(s)),
               feedIdByView |-> [st.feedIdByView EXCEPT ![s.view] = Append(@, s.feedId)]],
              Tail(subscriptions))

\* a reset that clears a bucket only when a view is given
ResetBucketsOfViewOnly(buckets, view) ==
    IF view # NoView THEN [buckets EXCEPT ![view] = <<>>] ELSE buckets

\* a reset that clears every bucket whatever the view
ResetBucketsAll(buckets, view) == emptyDataIdByView

\* the reset of fetchByView: one bucket, or all of them without a view
ResetBuckets(buckets, view) ==
    IF view # NoView THEN [buckets EXCEPT ![view] = <<>>] ELSE emptyDataIdByView

\* feedActions.upsertMany(res.data.map((s) => s.feeds))
FeedUpsertMany(store, res) ==
    [f \in DOMAIN store \cup { res[i].feedId : i \in 1..Len(res) } |->
        IF \E i \in 1..Len(res) : res[i].feedId = f
          THEN (CHOOSE s \in Range(res) : s.feedId = f).feeds
          ELSE store[f]]

\* the producer of unfollow: the entry is deleted and one element is spliced
\* out of every bucket at indexOf(feedId)
UnfollowState(st, feedId) ==
    [data |-> Without(st.data, feedId),
     feedIdByView |-> [v \in Views |->
         Splice1(st.feedIdByView[v], IndexOf(st.feedIdByView[v], feedId))]]

\* changeCategoryView, the loop that collects folderFeedIds
RECURSIVE FolderFeedIds(_, _, _)
FolderFeedIds(d, bucket, category) ==
    IF bucket = <<>> THEN <<>>
    ELSE LET feedId == Head(bucket)
             rest == FolderFeedIds(d, Tail(bucket), category)
         IN IF feedId \notin DOMAIN d THEN rest
            ELSE IF d[feedId].category = category \/ d[feedId].defaultCategory = category
              THEN <<feedId>> \o rest
              ELSE rest

\* changeCategoryView, the producer that moves folderFeedIds between buckets
RECURSIVE ChangeViewState(_, _, _, _)
ChangeViewState(st, folderFeedIds, currentView, changeToView) ==
    IF folderFeedIds = <<>> THEN st
    ELSE LET feedId == Head(folderFeedIds)
             d == IF feedId \in DOMAIN st.data
                    THEN [st.data EXCEPT ![feedId].view = changeToView]
                    ELSE st.data
             b1 == [st.feedIdByView EXCEPT
                      ![currentView] = Splice1(@, IndexOf(@, feedId))]
             b2 == [b1 EXCEPT ![changeToView] = Append(@, feedId)]
         IN ChangeViewState([data |-> d, feedIdByView |-> b2],
                            Tail(folderFeedIds), currentView, changeToView)

\* a loop that matches on category alone
SubscriptionIdsByCategory(d, lastCategory) ==
    { feedId \in DOMAIN d : d[feedId].category = lastCategory }

\* renameCategory, the loop that collects subscriptionIds
SubscriptionIds(d, lastCategory) ==
    { feedId \in DOMAIN d :
        d[feedId].category = lastCategory \/ d[feedId].defaultCategory = lastCategory }

\* renameCategory, the producer
RenameState(d, subscriptionIds, newCategory) ==
    [feedId \in DOMAIN d |->
        IF feedId \in subscriptionIds
          THEN [d[feedId] EXCEPT !.category = newCategory, !.defaultCategory = Null]
          ELSE d[feedId]]

\* deleteCategory, the producer, for one subscription of idSet
DeleteCategoryOne(subscription, store) ==
    IF subscription.feedId \notin DOMAIN store THEN subscription
    ELSE LET siteUrl == store[subscription.feedId].siteUrl
             parsed == ParseDomain(siteUrl)
         IN IF siteUrl = Null THEN subscription
            ELSE [subscription EXCEPT
                    !.category = Null,
                    !.defaultCategory =
                        IF parsed # Null THEN capitalizeFirstLetter(parsed) ELSE @]

\* a producer that ignores idSet
DeleteCategoryStateEvery(d, store, ids) ==
    [id \in DOMAIN d |-> DeleteCategoryOne(d[id], store)]

DeleteCategoryState(d, store, ids) ==
    [id \in DOMAIN d |->
        IF id \in Range(ids) THEN DeleteCategoryOne(d[id], store) ELSE d[id]]

----------------------------------------------------------------------------
(* doMutationAndTransaction(mutation, transaction, options) *)

\* the options of a call that passes none
DefaultOptions == [doTranscationWhenMutationFail |-> FALSE, waitMutation |-> TRUE]

\* options that run the transaction although the mutation failed
DeleteCategoryOptionsOnFail == [doTranscationWhenMutationFail |-> TRUE, waitMutation |-> TRUE]

\* the options deleteCategory passes
DeleteCategoryOptions == [doTranscationWhenMutationFail |-> FALSE, waitMutation |-> TRUE]

\* The local effects of a transaction are a record: the stores it may write,
\* the persistence requests (db) and the unread-count fetches it issues.
\* st is the record before the transaction and done the record after it.

\* when the helper is called: the transaction runs beside the mutation only
\* when the helper does not wait for the mutation
TransactionAtCall(options, st, done) ==
    IF options.waitMutation THEN st ELSE done

\* when the mutation has succeeded
TransactionAtResolve(options, st, done) ==
    IF options.waitMutation THEN done ELSE st

\* when the mutation has failed
TransactionAtReject(options, st, done) ==
    IF options.waitMutation /\ options.doTranscationWhenMutationFail THEN done ELSE st

----------------------------------------------------------------------------
(* The Media component *)

Slots == 1..MaxMedia

SrcA == <<"a">>
SrcB == <<"b">>
\* the src prop: an image URL, or undefined
Srcs == {Null, SrcA, SrcB}

\* the proxy prop: absent, or the dimensions to ask the image proxy for
NoProxy == Null
Proxies == {NoProxy, [width |-> 1, height |-> 1]}

\* the type prop
MediaTypes == {"photo", "video"}

\* getImageProxyUrl({ url, width, height }): the URL of the image behind the proxy
getImageProxyUrl(url, width, height) == <<"p", "/">> \o url

\* a slot without a component
Unmounted == [mounted |-> FALSE]

\* the state of MediaImpl after its first render: the useState initializers.
\* pending says that the img element is loading imgSrc; there is an img
\* element only for a photo with a src
MountState(src, proxy, type, hasOnError, failed) ==
    [mounted |-> TRUE, src |-> src, type |-> type, hasOnError |-> hasOnError,
     hidden |-> (src = Null),
     imgSrc |-> IF proxy # NoProxy /\ src # Null /\ src \notin failed
                  THEN getImageProxyUrl(src, proxy.width, proxy.height)
                  ELSE src,
     mediaLoadState |-> "loading",
     pending |-> (type = "photo" /\ src # Null)]

\* an error handler that gives up at the first error
errorHandleGivesUp(m, failed) ==
    [media |-> [m EXCEPT !.mediaLoadState = "error", !.hidden = TRUE, !.pending = FALSE],
     failedList |-> failed,
     onError |-> m.hasOnError]

\* errorHandle: the component m after the error, failedList after it, and
\* whether props.onError was called
errorHandle(m, failed) ==
    IF m.imgSrc # m.src
      THEN [media |-> [m EXCEPT !.mediaLoadState = "error", !.imgSrc = m.src,
                                !.pending = TRUE],
            failedList |-> failed \cup {m.src},
            onError |-> FALSE]
      ELSE [media |-> [m EXCEPT !.mediaLoadState = "error", !.hidden = TRUE,
                                !.pending = FALSE],
            failedList |-> failed,
            onError |-> m.hasOnError]

----------------------------------------------------------------------------
(* State *)

Timestamps == {1, 2}

\* markRead without a filter, and the filters the model passes
NoFilter == [startTime |-> 0, endTime |-> 0]
Filters == {NoFilter, [startTime |-> 1, endTime |-> 1]}

NoIO == [db |-> {}, unreadFetch |-> <<>>]

\* the stores a transaction may write, with nothing requested yet
Local == [data |-> data, unread |-> unread, entries |-> entries,
          db |-> {}, unreadFetch |-> <<>>]

\* the step writes the record st of local effects
Apply(st) ==
    /\ data' = st.data
    /\ unread' = st.unread
    /\ entries' = st.entries
    /\ io' = [db |-> st.db, unreadFetch |-> st.unreadFetch]

One(c) == SetToBag({c})

CanCall == BagCardinality(calls) < MaxCalls

Fits(buckets) == \A v \in Views : Len(buckets[v]) <= MaxBucketLen

Init ==
    /\ data = EmptyRecord
    /\ feedIdByView = emptyDataIdByView
    /\ feedStore = EmptyRecord
    /\ unread = [f \in FeedIds |-> 0]
    /\ entries = [f \in FeedIds |-> {}]
    /\ calls = EmptyBag
    /\ ev = [op |-> "init", phase |-> "call", result |-> "fulfilled"]
    /\ io = NoIO
    /\ failedList = {}
    /\ media = [i \in Slots |-> Unmounted]

----------------------------------------------------------------------------
(* fetchByView and upsertMany *)

\* SubscriptionService.upsertMany(subscriptions)
DbUpsertMany(subscriptions) ==
    { [op |-> "upsert", feedId |-> subscriptions[i].feedId] : i \in 1..Len(subscriptions) }

\* fetchByView up to its await: the request is sent
FetchByView(view) ==
    /\ CanCall
    /\ calls' = calls (+) One([op |-> "fetchByView", view |-> view])
    /\ ev' = [op |-> "fetchByView", phase |-> "call", view |-> view, result |-> "pending"]
    /\ io' = NoIO
    /\ UNCHANGED <<data, feedIdByView, feedStore, unread, entries>>

\* fetchByView after its await, the response res has arrived
FetchByViewResolve(c, res) ==
    /\ BagIn(c, calls) /\ c.op = "fetchByView"
    /\ LET reset == [data |-> data, feedIdByView |-> ResetBuckets(feedIdByView, c.view)]
           transformedData == morphResponseData(res)
           st == UpsertManyState(reset, transformedData)
       IN /\ Fits(st.feedIdByView)
          /\ data' = st.data
          /\ feedIdByView' = st.feedIdByView
          /\ feedStore' = FeedUpsertMany(feedStore, res)
          /\ io' = [db |-> DbUpsertMany(transformedData), unreadFetch |-> <<>>]
    /\ calls' = calls (-) One(c)
    /\ ev' = [op |-> "fetchByView", phase |-> "resolve", view |-> c.view, res |-> res,
              result |-> "fulfilled"]
    /\ UNCHANGED <<unread, entries>>

\* a rejection that has already reset the buckets
FetchByViewRejectResets(c) ==
    /\ BagIn(c, calls) /\ c.op = "fetchByView"
    /\ feedIdByView' = ResetBuckets(feedIdByView, c.view)
    /\ calls' = calls (-) One(c)
    /\ ev' = [op |-> "fetchByView", phase |-> "reject", view |-> c.view, result |-> "rejected"]
    /\ io' = NoIO
    /\ UNCHANGED <<data, feedStore, unread, entries>>

\* the subscriptions request rejects: the await throws
FetchByViewReject(c) ==
    /\ BagIn(c, calls) /\ c.op = "fetchByView"
    /\ calls' = calls (-) One(c)
    /\ ev' = [op |-> "fetchByView", phase |-> "reject", view |-> c.view, result |-> "rejected"]
    /\ io' = NoIO
    /\ UNCHANGED <<data, feedIdByView, feedStore, unread, entries>>

\* upsertMany called by itself
UpsertMany(subscriptions) ==
    /\ LET st == UpsertManyState([data |-> data, feedIdByView |-> feedIdByView], subscriptions)
       IN /\ Fits(st.feedIdByView)
          /\ data' = st.data
          /\ feedIdByView' = st.feedIdByView
    /\ io' = [db |-> DbUpsertMany(subscriptions), unreadFetch |-> <<>>]
    /\ ev' = [op |-> "upsertMany", phase |-> "call", result |-> "fulfilled"]
    /\ UNCHANGED <<feedStore, unread, entries, calls>>

\* clear
Clear ==
    /\ data' = EmptyRecord
    /\ feedIdByView' = emptyDataIdByView
    /\ io' = NoIO
    /\ ev' = [op |-> "clear", phase |-> "call", result |-> "fulfilled"]
    /\ UNCHANGED <<feedStore, unread, entries, calls>>

----------------------------------------------------------------------------
(* unfollow *)

\* the transaction of unfollow: SubscriptionService.removeSubscription
UnfollowTransaction(st, c) ==
    [st EXCEPT !.db = @ \cup {[op |-> "removeSubscription", feedId |-> c.feedId]}]

\* an unfollow that sends the request and leaves the store as it is
UnfollowRemoteFirst(feedId) ==
    /\ CanCall
    /\ LET c == [op |-> "unfollow", feedId |-> feedId, options |-> DefaultOptions]
       IN /\ Apply(Local)
          /\ calls' = calls (+) One(c)
          /\ ev' = [op |-> "unfollow", phase |-> "call", feedId |-> c.feedId, result |-> "pending"]
    /\ UNCHANGED <<feedIdByView, feedStore>>

\* unfollow up to the helper's await: the local removal, then the request
Unfollow(feedId) ==
    /\ CanCall
    /\ LET c == [op |-> "unfollow", feedId |-> feedId, options |-> DefaultOptions]
           removed == UnfollowState([data |-> data, feedIdByView |-> feedIdByView], feedId)
           st == [Local EXCEPT !.data = removed.data,
                               !.entries = [@ EXCEPT ![feedId] = {}],
                               !.unread = [@ EXCEPT ![feedId] = 0]]
       IN /\ feedIdByView' = removed.feedIdByView
          /\ Apply(TransactionAtCall(c.options, st, UnfollowTransaction(st, c)))
          /\ calls' = calls (+) One(c)
          /\ ev' = [op |-> "unfollow", phase |-> "call", feedId |-> c.feedId, result |-> "pending"]
    /\ UNCHANGED feedStore

\* the delete request succeeds
UnfollowResolve(c) ==
    /\ BagIn(c, calls) /\ c.op = "unfollow"
    /\ Apply(TransactionAtResolve(c.options, Local, UnfollowTransaction(Local, c)))
    /\ calls' = calls (-) One(c)
    /\ ev' = [op |-> "unfollow", phase |-> "resolve", feedId |-> c.feedId, result |-> "fulfilled"]
    /\ UNCHANGED <<feedIdByView, feedStore>>

\* the delete request rejects
UnfollowReject(c) ==
    /\ BagIn(c, calls) /\ c.op = "unfollow"
    /\ Apply(TransactionAtReject(c.options, Local, UnfollowTransaction(Local, c)))
    /\ calls' = calls (-) One(c)
    /\ ev' = [op |-> "unfollow", phase |-> "reject", feedId |-> c.feedId, result |-> "rejected"]
    /\ UNCHANGED <<feedIdByView, feedStore>>

----------------------------------------------------------------------------
(* changeCategoryView *)

\* up to the first await: folderFeedIds is collected and one patch per feed sent
ChangeCategoryView(category, currentView, changeToView) ==
    /\ CanCall
    /\ LET c == [op |-> "changeCategoryView", category |-> category,
                 currentView |-> currentView, changeToView |-> changeToView,
                 folderFeedIds |-> FolderFeedIds(data, feedIdByView[currentView], category)]
       IN /\ calls' = calls (+) One(c)
          /\ ev' = [op |-> "changeCategoryView", phase |-> "call", result |-> "pending"]
    /\ io' = NoIO
    /\ UNCHANGED <<data, feedIdByView, feedStore, unread, entries>>

\* every patch has succeeded: the move, then SubscriptionService.changeView per feed
ChangeCategoryViewResolve(c) ==
    /\ BagIn(c, calls) /\ c.op = "changeCategoryView"
    /\ LET st == ChangeViewState([data |-> data, feedIdByView |-> feedIdByView],
                                 c.folderFeedIds, c.currentView, c.changeToView)
       IN /\ Fits(st.feedIdByView)
          /\ data' = st.data
          /\ feedIdByView' = st.feedIdByView
    /\ io' = [db |-> { [op |-> "changeView", feedId |-> f] : f \in Range(c.folderFeedIds) },
              unreadFetch |-> <<>>]
    /\ calls' = calls (-) One(c)
    /\ ev' = [op |-> "changeCategoryView", phase |-> "resolve", result |-> "fulfilled"]
    /\ UNCHANGED <<feedStore, unread, entries>>

\* a rejection that still moves the feeds of the call
ChangeCategoryViewRejectMoves(c) ==
    /\ BagIn(c, calls) /\ c.op = "changeCategoryView"
    /\ c.folderFeedIds # <<>>
    /\ LET st == ChangeViewState([data |-> data, feedIdByView |-> feedIdByView],
                                 c.folderFeedIds, c.currentView, c.changeToView)
       IN /\ Fits(st.feedIdByView)
          /\ data' = st.data
          /\ feedIdByView' = st.feedIdByView
    /\ calls' = calls (-) One(c)
    /\ ev' = [op |-> "changeCategoryView", phase |-> "reject", result |-> "rejected"]
    /\ io' = NoIO
    /\ UNCHANGED <<feedStore, unread, entries>>

\* one of the patches rejects: Promise.all rejects and the await throws
ChangeCategoryViewReject(c) ==
    /\ BagIn(c, calls) /\ c.op = "changeCategoryView"
    /\ c.folderFeedIds # <<>>
    /\ calls' = calls (-) One(c)
    /\ ev' = [op |-> "changeCategoryView", phase |-> "reject", result |-> "rejected"]
    /\ io' = NoIO
    /\ UNCHANGED <<data, feedIdByView, feedStore, unread, entries>>

----------------------------------------------------------------------------
(* renameCategory *)

\* the transaction of renameCategory: SubscriptionService.renameCategory
RenameCategoryTransaction(st, c) ==
    [st EXCEPT !.db = @ \cup { [op |-> "renameCategory", feedId |-> f] : f \in c.subscriptionIds }]

\* up to the helper's await: the local rename, then the request
RenameCategory(lastCategory, newCategory) ==
    /\ CanCall
    /\ LET subscriptionIds == SubscriptionIds(data, lastCategory)
           c == [op |-> "renameCategory", lastCategory |-> lastCategory,
                 newCategory |-> newCategory, subscriptionIds |-> subscriptionIds,
                 options |-> DefaultOptions]
           st == [Local EXCEPT !.data = RenameState(data, subscriptionIds, newCategory)]
       IN /\ Apply(TransactionAtCall(c.options, st, RenameCategoryTransaction(st, c)))
          /\ calls' = calls (+) One(c)
          /\ ev' = [op |-> "renameCategory", phase |-> "call", result |-> "pending"]
    /\ UNCHANGED <<feedIdByView, feedStore>>

RenameCategoryResolve(c) ==
    /\ BagIn(c, calls) /\ c.op = "renameCategory"
    /\ Apply(TransactionAtResolve(c.options, Local, RenameCategoryTransaction(Local, c)))
    /\ calls' = calls (-) One(c)
    /\ ev' = [op |-> "renameCategory", phase |-> "resolve", result |-> "fulfilled"]
    /\ UNCHANGED <<feedIdByView, feedStore>>

RenameCategoryReject(c) ==
    /\ BagIn(c, calls) /\ c.op = "renameCategory"
    /\ Apply(TransactionAtReject(c.options, Local, RenameCategoryTransaction(Local, c)))
    /\ calls' = calls (-) One(c)
    /\ ev' = [op |-> "renameCategory", phase |-> "reject", result |-> "rejected"]
    /\ UNCHANGED <<feedIdByView, feedStore>>

----------------------------------------------------------------------------
(* deleteCategory *)

\* the transaction of deleteCategory: the producer, then
\* SubscriptionService.upsert for every id that has a subscription
DeleteCategoryTransaction(st, c) ==
    LET d == DeleteCategoryState(st.data, feedStore, c.ids)
    IN [st EXCEPT !.data = d,
                  !.db = @ \cup { [op |-> "upsert", feedId |-> id] :
                                    id \in Range(c.ids) \cap DOMAIN d }]

DeleteCategory(ids) ==
    /\ CanCall
    /\ LET c == [op |-> "deleteCategory", ids |-> ids, options |-> DeleteCategoryOptions]
       IN /\ Apply(TransactionAtCall(c.options, Local, DeleteCategoryTransaction(Local, c)))
          /\ calls' = calls (+) One(c)
          /\ ev' = [op |-> "deleteCategory", phase |-> "call", ids |-> c.ids, result |-> "pending"]
    /\ UNCHANGED <<feedIdByView, feedStore>>

DeleteCategoryResolve(c) ==
    /\ BagIn(c, calls) /\ c.op = "deleteCategory"
    /\ Apply(TransactionAtResolve(c.options, Local, DeleteCategoryTransaction(Local, c)))
    /\ calls' = calls (-) One(c)
    /\ ev' = [op |-> "deleteCategory", phase |-> "resolve", ids |-> c.ids, result |-> "fulfilled"]
    /\ UNCHANGED <<feedIdByView, feedStore>>

DeleteCategoryReject(c) ==
    /\ BagIn(c, calls) /\ c.op = "deleteCategory"
    /\ Apply(TransactionAtReject(c.options, Local, DeleteCategoryTransaction(Local, c)))
    /\ calls' = calls (-) One(c)
    /\ ev' = [op |-> "deleteCategory", phase |-> "reject", ids |-> c.ids, result |-> "rejected"]
    /\ UNCHANGED <<feedIdByView, feedStore>>

----------------------------------------------------------------------------
(* markReadByView and markReadByFeedIds *)

\* entryActions.patchManyByFeedId(feedId, { read: true }, filter): the unread
\* entries left, all entries being marked without a filter and those of the
\* time range with one
PatchManyRead(unreadEntries, filter) ==
    IF filter = NoFilter THEN {}
    ELSE { t \in unreadEntries : ~(filter.startTime <= t /\ t <= filter.endTime) }

\* a transaction that takes the feeds of a view from its bucket
MarkReadByViewTransactionByBucket(st, c) ==
    LET hit == Range(feedIdByView[c.view])
    IN [st EXCEPT
          !.unread = [f \in FeedIds |->
              IF f \in hit /\ c.filter = NoFilter THEN 0 ELSE st.unread[f]],
          !.entries = [f \in FeedIds |->
              IF f \in hit THEN PatchManyRead(st.entries[f], c.filter) ELSE st.entries[f]],
          !.unreadFetch = IF c.filter # NoFilter THEN Append(@, c.view) ELSE @]

\* the transaction of markReadByView
MarkReadByViewTransaction(st, c) ==
    LET hit == { feedId \in DOMAIN st.data : st.data[feedId].view = c.view }
    IN [st EXCEPT
          !.unread = [f \in FeedIds |->
              IF f \in hit /\ c.filter = NoFilter THEN 0 ELSE st.unread[f]],
          !.entries = [f \in FeedIds |->
              IF f \in hit THEN PatchManyRead(st.entries[f], c.filter) ELSE st.entries[f]],
          !.unreadFetch = IF c.filter # NoFilter THEN Append(@, c.view) ELSE @]

\* a markReadByView that applies its local effects when it is called
MarkReadByViewEager(view, filter) ==
    /\ CanCall
    /\ LET c == [op |-> "markReadByView", view |-> view, filter |-> filter,
                 options |-> DefaultOptions]
       IN /\ Apply(MarkReadByViewTransaction(Local, c))
          /\ calls' = calls (+) One(c)
          /\ ev' = [op |-> "markReadByView", phase |-> "call", call |-> c,
                    result |-> "fulfilled"]
    /\ UNCHANGED <<feedIdByView, feedStore>>

\* the helper's promise is not awaited: the caller's promise fulfils at once
MarkReadByView(view, filter) ==
    /\ CanCall
    /\ LET c == [op |-> "markReadByView", view |-> view, filter |-> filter,
                 options |-> DefaultOptions]
       IN /\ Apply(TransactionAtCall(c.options, Local, MarkReadByViewTransaction(Local, c)))
          /\ calls' = calls (+) One(c)
          /\ ev' = [op |-> "markReadByView", phase |-> "call", call |-> c,
              result |-> "fulfilled"]
    /\ UNCHANGED <<feedIdByView, feedStore>>

MarkReadByViewResolve(c) ==
    /\ BagIn(c, calls) /\ c.op = "markReadByView"
    /\ Apply(TransactionAtResolve(c.options, Local, MarkReadByViewTransaction(Local, c)))
    /\ calls' = calls (-) One(c)
    /\ ev' = [op |-> "markReadByView", phase |-> "resolve", call |-> c,
              result |-> "none"]
    /\ UNCHANGED <<feedIdByView, feedStore>>

MarkReadByViewReject(c) ==
    /\ BagIn(c, calls) /\ c.op = "markReadByView"
    /\ Apply(TransactionAtReject(c.options, Local, MarkReadByViewTransaction(Local, c)))
    /\ calls' = calls (-) One(c)
    /\ ev' = [op |-> "markReadByView", phase |-> "reject", call |-> c,
              result |-> "none"]
    /\ UNCHANGED <<feedIdByView, feedStore>>

\* the transaction of markReadByFeedIds
MarkReadByFeedIdsTransaction(st, c) ==
    LET hit == Range(c.feedIds)
    IN [st EXCEPT
          !.unread = [f \in FeedIds |->
              IF f \in hit /\ c.filter = NoFilter THEN 0 ELSE st.unread[f]],
          !.entries = [f \in FeedIds |->
              IF f \in hit THEN PatchManyRead(st.entries[f], c.filter) ELSE st.entries[f]],
          !.unreadFetch = IF c.filter # NoFilter THEN Append(@, c.view) ELSE @]

MarkReadByFeedIds(feedIds, view, filter) ==
    /\ CanCall
    /\ LET c == [op |-> "markReadByFeedIds", feedIds |-> feedIds, view |-> view,
                 filter |-> filter, options |-> DefaultOptions]
       IN /\ Apply(TransactionAtCall(c.options, Local, MarkReadByFeedIdsTransaction(Local, c)))
          /\ calls' = calls (+) One(c)
          /\ ev' = [op |-> "markReadByFeedIds", phase |-> "call", call |-> c,
              result |-> "fulfilled"]
    /\ UNCHANGED <<feedIdByView, feedStore>>

MarkReadByFeedIdsResolve(c) ==
    /\ BagIn(c, calls) /\ c.op = "markReadByFeedIds"
    /\ Apply(TransactionAtResolve(c.options, Local, MarkReadByFeedIdsTransaction(Local, c)))
    /\ calls' = calls (-) One(c)
    /\ ev' = [op |-> "markReadByFeedIds", phase |-> "resolve", call |-> c,
              result |-> "none"]
    /\ UNCHANGED <<feedIdByView, feedStore>>

MarkReadByFeedIdsReject(c) ==
    /\ BagIn(c, calls) /\ c.op = "markReadByFeedIds"
    /\ Apply(TransactionAtReject(c.options, Local, MarkReadByFeedIdsTransaction(Local, c)))
    /\ calls' = calls (-) One(c)
    /\ ev' = [op |-> "markReadByFeedIds", phase |-> "reject", call |-> c,
              result |-> "none"]
    /\ UNCHANGED <<feedIdByView, feedStore>>

\* the server delivers an entry of a subscribed feed: it is unread
EntryArrives(f, t) ==
    /\ f \in DOMAIN data
    /\ t \notin entries[f]
    /\ unread[f] < MaxUnread
    /\ entries' = [entries EXCEPT ![f] = @ \cup {t}]
    /\ unread' = [unread EXCEPT ![f] = @ + 1]
    /\ ev' = [op |-> "entryArrives", phase |-> "call", result |-> "none"]
    /\ io' = NoIO
    /\ UNCHANGED <<data, feedIdByView, feedStore, calls>>

----------------------------------------------------------------------------
(* Specifications *)

\* the calls that wait
Waiting(op) == { c \in BagToSet(calls) : c.op = op }

\* no call waits
Idle == calls = EmptyBag

\* arguments the model passes
CategoryNames == {CatA, capitalizeFirstLetter(DomainEx)}
NewCategoryNames == {CatB}
IdLists == {<<F1>>, <<F2>>, <<F1, F2>>}
SingleUpserts == { morphResponseData(r) : r \in { x \in Responses(NoView) : Len(x) = 1 } }

\* the subscription store: every operation on data and feedIdByView, called
\* while no other call waits; a category is moved to another view than the one
\* it is in
Next ==
    \/ \E view \in Views \cup {NoView} : Idle /\ FetchByView(view) /\ UNCHANGED mediaVars
    \/ \E c \in Waiting("fetchByView") : \E res \in Responses(c.view) : FetchByViewResolve(c, res) /\ UNCHANGED mediaVars
    \/ \E c \in Waiting("fetchByView") : FetchByViewReject(c) /\ UNCHANGED mediaVars
    \/ \E subscriptions \in SingleUpserts : UpsertMany(subscriptions) /\ UNCHANGED mediaVars
    \/ Clear /\ UNCHANGED mediaVars
    \/ \E feedId \in FeedIds : Idle /\ Unfollow(feedId) /\ UNCHANGED mediaVars
    \/ \E c \in Waiting("unfollow") : UnfollowResolve(c) /\ UNCHANGED mediaVars
    \/ \E c \in Waiting("unfollow") : UnfollowReject(c) /\ UNCHANGED mediaVars
    \/ \E category \in CategoryNames, currentView \in Views :
          \E changeToView \in Views \ {currentView} :
          Idle /\ ChangeCategoryView(category, currentView, changeToView) /\ UNCHANGED mediaVars
    \/ \E c \in Waiting("changeCategoryView") : ChangeCategoryViewResolve(c) /\ UNCHANGED mediaVars
    \/ \E c \in Waiting("changeCategoryView") : ChangeCategoryViewReject(c) /\ UNCHANGED mediaVars
    \/ \E lastCategory \in CategoryNames, newCategory \in NewCategoryNames :
          Idle /\ RenameCategory(lastCategory, newCategory) /\ UNCHANGED mediaVars
    \/ \E c \in Waiting("renameCategory") : RenameCategoryResolve(c) /\ UNCHANGED mediaVars
    \/ \E c \in Waiting("renameCategory") : RenameCategoryReject(c) /\ UNCHANGED mediaVars
    \/ \E ids \in IdLists : Idle /\ DeleteCategory(ids) /\ UNCHANGED mediaVars
    \/ \E c \in Waiting("deleteCategory") : DeleteCategoryResolve(c) /\ UNCHANGED mediaVars
    \/ \E c \in Waiting("deleteCategory") : DeleteCategoryReject(c) /\ UNCHANGED mediaVars

Spec == Init /\ [][Next]_vars

\* marking read: subscriptions are upserted, entries arrive, and feeds are
\* marked read by view or by id
NextRead ==
    \/ \E subscriptions \in SingleUpserts : UpsertMany(subscriptions) /\ UNCHANGED mediaVars
    \/ \E f \in FeedIds, t \in Timestamps : EntryArrives(f, t) /\ UNCHANGED mediaVars
    \/ \E view \in Views, filter \in Filters : Idle /\ MarkReadByView(view, filter) /\ UNCHANGED mediaVars
    \/ \E c \in Waiting("markReadByView") : MarkReadByViewResolve(c) /\ UNCHANGED mediaVars
    \/ \E c \in Waiting("markReadByView") : MarkReadByViewReject(c) /\ UNCHANGED mediaVars
    \/ \E feedIds \in IdLists, view \in Views, filter \in Filters :
          Idle /\ MarkReadByFeedIds(feedIds, view, filter) /\ UNCHANGED mediaVars
    \/ \E c \in Waiting("markReadByFeedIds") : MarkReadByFeedIdsResolve(c) /\ UNCHANGED mediaVars
    \/ \E c \in Waiting("markReadByFeedIds") : MarkReadByFeedIdsReject(c) /\ UNCHANGED mediaVars

SpecRead == Init /\ [][NextRead]_vars

\* moving a category while other calls wait: a fetch of one view, an unfollow
\* or another changeCategoryView may be called while calls wait, up to MaxCalls
\* of them
NextMove ==
    \/ \E view \in Views : FetchByView(view) /\ UNCHANGED mediaVars
    \/ \E c \in Waiting("fetchByView") : \E res \in Responses(c.view) :
          FetchByViewResolve(c, res) /\ UNCHANGED mediaVars
    \/ \E feedId \in FeedIds : Unfollow(feedId) /\ UNCHANGED mediaVars
    \/ \E c \in Waiting("unfollow") : UnfollowResolve(c) /\ UNCHANGED mediaVars
    \/ \E category \in CategoryNames, currentView \in Views :
          \E changeToView \in Views \ {currentView} :
          ChangeCategoryView(category, currentView, changeToView) /\ UNCHANGED mediaVars
    \/ \E c \in Waiting("changeCategoryView") : ChangeCategoryViewResolve(c) /\ UNCHANGED mediaVars
    \/ \E c \in Waiting("changeCategoryView") : ChangeCategoryViewReject(c) /\ UNCHANGED mediaVars

SpecMove == Init /\ [][NextMove]_vars

----------------------------------------------------------------------------
(* Media: mounting, and the load and error events of its img element *)

storeVars == <<data, feedIdByView, feedStore, unread, entries, calls>>

\* <Media src=... /> is rendered in slot i: MediaImpl mounts (key={props.src}
\* mounts it anew whenever src changes)
Mount(i, src, proxy, type, hasOnError) ==
    /\ ~media[i].mounted
    /\ media' = [media EXCEPT ![i] = MountState(src, proxy, type, hasOnError, failedList)]
    /\ ev' = [op |-> "mount", phase |-> "call", result |-> "none", slot |-> i,
              proxy |-> proxy]
    /\ io' = NoIO
    /\ UNCHANGED <<failedList, storeVars>>

\* the component of slot i is removed
Unmount(i) ==
    /\ media[i].mounted
    /\ media' = [media EXCEPT ![i] = Unmounted]
    /\ ev' = [op |-> "unmount", phase |-> "call", result |-> "none", slot |-> i]
    /\ io' = NoIO
    /\ UNCHANGED <<failedList, storeVars>>

\* the img element of slot i fails to load imgSrc: errorHandle runs
ImgError(i) ==
    /\ media[i].mounted /\ media[i].pending
    /\ LET done == errorHandle(media[i], failedList)
       IN /\ media' = [media EXCEPT ![i] = done.media]
          /\ failedList' = done.failedList
          /\ ev' = [op |-> "errorHandle", phase |-> "call", result |-> "none", slot |-> i,
                    onError |-> done.onError]
    /\ io' = NoIO
    /\ UNCHANGED storeVars

\* the img element of slot i has loaded imgSrc: handleOnLoad runs
ImgLoad(i) ==
    /\ media[i].mounted /\ media[i].pending
    /\ media' = [media EXCEPT ![i] = [@ EXCEPT !.mediaLoadState = "loaded",
                                               !.pending = FALSE]]
    /\ ev' = [op |-> "handleOnLoad", phase |-> "call", result |-> "none", slot |-> i]
    /\ io' = NoIO
    /\ UNCHANGED <<failedList, storeVars>>

\* Media components are mounted and removed, and their images load or fail
NextMedia ==
    \/ \E i \in Slots, src \in Srcs, proxy \in Proxies, type \in MediaTypes,
          hasOnError \in BOOLEAN : Mount(i, src, proxy, type, hasOnError)
    \/ \E i \in Slots : Unmount(i)
    \/ \E i \in Slots : ImgError(i)
    \/ \E i \in Slots : ImgLoad(i)

SpecMedia == Init /\ [][NextMedia]_vars

----------------------------------------------------------------------------
(* Claims about the view buckets *)

\* the step that just ran
Ran(op, phase) == ev.op = op /\ ev.phase = phase

\* the step being taken
Runs(op, phase) == ev'.op = op /\ ev'.phase = phase

\* occurrences of f in all buckets together
Occurrences(buckets, f) ==
    Cardinality({ p \in Views \X (1..(MaxBucketLen + 2)) :
                    p[2] <= Len(buckets[p[1]]) /\ buckets[p[1]][p[2]] = f })

InNoBucket(buckets, f) == \A v \in Views : f \notin Range(buckets[v])

\* C1: in every reachable state, every feedId in a view bucket feedIdByView[v]
\* has an entry in data whose view is v.
C1_BucketEntriesHaveData ==
    \A v \in Views : \A f \in Range(feedIdByView[v]) :
        f \in DOMAIN data /\ data[f].view = v

\* C2: in every reachable state, each feedId occurs at most once in all view
\* buckets taken together.
C2_AtMostOnceInBuckets ==
    \A f \in FeedIds : Occurrences(feedIdByView, f) <= 1

\* the feedIds of a response that have view v, in response order
RECURSIVE FeedIdsOfView(_, _)
FeedIdsOfView(res, v) ==
    IF res = <<>> THEN <<>>
    ELSE (IF Head(res).view = v THEN <<Head(res).feedId>> ELSE <<>>)
         \o FeedIdsOfView(Tail(res), v)

ResponseIds(res) == { res[i].feedId : i \in 1..Len(res) }

\* C3 as stated: after fetchByView(undefined) completes, every bucket v holds
\* exactly the feedIds f with data[f].view = v, whatever the store held before.
C3_FetchAllBucketsMatchData ==
    (Ran("fetchByView", "resolve") /\ ev.view = NoView) =>
        \A v \in Views :
            Range(feedIdByView[v]) = { f \in DOMAIN data : data[f].view = v }

\* C3 as amended: after fetchByView(undefined) completes with a response res,
\* every bucket v is the feedIds of res with view v, in response order, each
\* stored in data with view v; a subscription that data held before and that
\* res does not name stays in data unchanged and is in no bucket.
C3_FetchAllBucketsMatchResponse ==
    [][ (Runs("fetchByView", "resolve") /\ ev'.view = NoView) =>
          /\ \A v \in Views :
                /\ feedIdByView'[v] = FeedIdsOfView(ev'.res, v)
                /\ \A f \in Range(feedIdByView'[v]) :
                      f \in DOMAIN data' /\ data'[f].view = v
          /\ DOMAIN data' = DOMAIN data \cup ResponseIds(ev'.res)
          /\ \A f \in DOMAIN data \ ResponseIds(ev'.res) :
                data'[f] = data[f] /\ InNoBucket(feedIdByView', f) ]_vars

\* a fetch of all views has completed, its response fills a bucket, and a
\* subscription the response did not name is still in data, in no bucket
C3_Witness ==
    /\ Ran("fetchByView", "resolve") /\ ev.view = NoView
    /\ \E v \in Views : feedIdByView[v] # <<>>
    /\ \E f \in DOMAIN data : InNoBucket(feedIdByView, f)

\* C4: after unfollow(f) has applied its local mutation, data has no entry for
\* f and no view bucket contains f at any position.
C4_UnfollowRemovesEverywhere ==
    Ran("unfollow", "call") =>
        /\ ev.feedId \notin DOMAIN data
        /\ InNoBucket(feedIdByView, ev.feedId)

\* C5: when every patch of changeCategoryView(category, fromView, toView) has
\* succeeded, every feedId that was in fromView's bucket with that category or
\* defaultCategory is absent from fromView's bucket, exactly once in toView's
\* bucket, and stored with view toView.
C5_ChangeCategoryViewMoves ==
    [][ Runs("changeCategoryView", "resolve") =>
          \A c \in Waiting("changeCategoryView") :
              ChangeCategoryViewResolve(c) =>
                  \A f \in Range(c.folderFeedIds) :
                      /\ f \notin Range(feedIdByView'[c.currentView])
                      /\ Count(feedIdByView'[c.changeToView], f) = 1
                      /\ f \in DOMAIN data'
                      /\ data'[f].view = c.changeToView ]_vars

\* C6: after deleteCategory(ids) succeeds remotely, every subscription of ids
\* in data has its category cleared, also when its feed or the feed's siteUrl
\* is missing, and its defaultCategory is the capitalized domain when the
\* siteUrl has a parseable domain.
C6_DeleteCategoryClears ==
    [][ Runs("deleteCategory", "resolve") =>
          \A c \in Waiting("deleteCategory") :
              DeleteCategoryResolve(c) =>
                  \A id \in Range(c.ids) \cap DOMAIN data :
                      /\ id \in DOMAIN data'
                      /\ data'[id].category = Null
                      /\ (id \in DOMAIN feedStore
                            /\ ParseDomain(feedStore[id].siteUrl) # Null)
                          => data'[id].defaultCategory =
                               capitalizeFirstLetter(ParseDomain(feedStore[id].siteUrl)) ]_vars

----------------------------------------------------------------------------
(* Claims about categories and about the order of local and remote effects *)

Matches(subscription, name) ==
    subscription.category = name \/ subscription.defaultCategory = name

\* C7: after the local update of renameCategory(A, B), every subscription
\* that had category A or defaultCategory A has category B and no
\* defaultCategory, and every other subscription is unchanged.
C7_RenameCategoryLocal ==
    [][ Runs("renameCategory", "call") =>
          \A lastCategory \in CategoryNames, newCategory \in NewCategoryNames :
              RenameCategory(lastCategory, newCategory) =>
                  /\ DOMAIN data' = DOMAIN data
                  /\ \A f \in DOMAIN data :
                        IF Matches(data[f], lastCategory)
                          THEN /\ data'[f].category = newCategory
                               /\ data'[f].defaultCategory = Null
                          ELSE data'[f] = data[f] ]_vars

\* a rename has just run: one subscription carries the new name and no
\* defaultCategory, another one kept its own grouping
C7_Witness ==
    /\ Ran("renameCategory", "call")
    /\ \E f \in DOMAIN data : data[f].category = CatB /\ data[f].defaultCategory = Null
    /\ \E f \in DOMAIN data : data[f].category # CatB

MarkReadOps == {"markReadByView", "markReadByFeedIds"}

\* C8: markReadByView and markReadByFeedIds change an unread count or an
\* entry's read flag, or fetch unread counts again, only in the step in which
\* the mark-read request has succeeded: neither the call nor a rejection does.
C8_MarkReadAfterSuccess ==
    [][ (ev'.op \in MarkReadOps /\ ev'.phase \in {"call", "reject"}) =>
          /\ unread' = unread
          /\ entries' = entries
          /\ io'.unreadFetch = <<>> ]_vars

\* the request of a markReadByView without a filter was rejected and a feed of
\* that view still has its unread count and its unread entries
C8_Witness ==
    /\ Ran("markReadByView", "reject")
    /\ ev.call.filter = NoFilter
    /\ \E f \in DOMAIN data :
          data[f].view = ev.call.view /\ unread[f] > 0 /\ entries[f] # {}

\* C9: when the category-delete request of deleteCategory rejects, no
\* subscription in data changes and nothing is written to persistence; the
\* call itself, before the request has succeeded, changes and writes nothing.
C9_DeleteCategoryRejectNoEffect ==
    [][ (ev'.op = "deleteCategory" /\ ev'.phase \in {"call", "reject"}) =>
          /\ data' = data
          /\ io'.db = {} ]_vars

\* a deleteCategory was rejected for a subscription that has a category and
\* whose feed has a site URL
C9_Witness ==
    /\ Ran("deleteCategory", "reject")
    /\ \E id \in Range(ev.ids) \cap DOMAIN data \cap DOMAIN feedStore :
          data[id].category # Null /\ feedStore[id].siteUrl # Null

\* C10: unfollow and renameCategory have changed the store by the time their
\* request waits, and a rejection of that request changes neither data nor a
\* bucket and reaches the caller as a rejected result.
C10_OptimisticNoRollback ==
    [][ /\ Runs("unfollow", "call") =>
            /\ ev'.feedId \notin DOMAIN data'
            /\ \A v \in Views :
                  Count(feedIdByView'[v], ev'.feedId) =
                    (IF Count(feedIdByView[v], ev'.feedId) = 0 THEN 0
                     ELSE Count(feedIdByView[v], ev'.feedId) - 1)
            /\ \E c \in Waiting("unfollow")' : c.feedId = ev'.feedId
        /\ Runs("renameCategory", "call") =>
            \E c \in Waiting("renameCategory")' :
                /\ c.subscriptionIds = { f \in DOMAIN data : Matches(data[f], c.lastCategory) }
                /\ \A f \in c.subscriptionIds : data'[f].category = c.newCategory
        /\ (ev'.op \in {"unfollow", "renameCategory"} /\ ev'.phase = "reject") =>
            /\ data' = data
            /\ feedIdByView' = feedIdByView
            /\ ev'.result = "rejected" ]_vars

\* the delete request of an unfollow was rejected: the feed is still out of
\* data and of every bucket, and its feed record is still known
C10_Witness ==
    /\ Ran("unfollow", "reject")
    /\ ev.result = "rejected"
    /\ ev.feedId \in DOMAIN feedStore
    /\ ev.feedId \notin DOMAIN data
    /\ InNoBucket(feedIdByView, ev.feedId)

----------------------------------------------------------------------------
(* Claims about failed requests, fetched subscriptions and untouched state *)

\* C11: when a patch of changeCategoryView rejects, the call rejects and
\* changes neither data nor any bucket and writes nothing to persistence.
C11_ChangeCategoryViewRejectNoEffect ==
    [][ Runs("changeCategoryView", "reject") =>
          /\ ev'.result = "rejected"
          /\ data' = data
          /\ feedIdByView' = feedIdByView
          /\ io'.db = {} ]_vars

\* a changeCategoryView was rejected and a subscription of one of the
\* categories is still in the bucket of its view
C11_Witness ==
    /\ Ran("changeCategoryView", "reject")
    /\ ev.result = "rejected"
    /\ \E v \in Views : \E f \in Range(feedIdByView[v]) \cap DOMAIN data :
          /\ data[f].view = v
          /\ \E name \in CategoryNames : Matches(data[f], name)

C14_FetchViewReplacesOneBucket ==
    [][ (Runs("fetchByView", "resolve") /\ ev'.view \in Views) =>
          /\ \A v \in Views \ {ev'.view} : feedIdByView'[v] = feedIdByView[v]
          /\ feedIdByView'[ev'.view] = [i \in 1..Len(ev'.res) |-> ev'.res[i].feedId] ]_vars

\* a fetch of one view has replaced a bucket that held something else, while
\* another bucket holds a feed
C14_Witness ==
    /\ Ran("fetchByView", "resolve") /\ ev.view \in Views
    /\ Len(ev.res) = 1
    /\ feedIdByView[ev.view] = <<ev.res[1].feedId>>
    /\ \E v \in Views \ {ev.view} : feedIdByView[v] # <<>>

\* C15: no step of deleteCategory adds or removes a subscription or changes a
\* view: the keys of data, every data[f].view and every bucket are as before,
\* and a subscription whose id is not in ids is unchanged.
C15_DeleteCategoryKeepsMembership ==
    [][ ev'.op = "deleteCategory" =>
          /\ DOMAIN data' = DOMAIN data
          /\ feedIdByView' = feedIdByView
          /\ \A f \in DOMAIN data :
                /\ data'[f].view = data[f].view
                /\ f \notin Range(ev'.ids) => data'[f] = data[f] ]_vars

\* a deleteCategory has succeeded: a subscription of ids is grouped by its
\* domain, and a subscription outside ids still has its category
C15_Witness ==
    /\ Ran("deleteCategory", "resolve")
    /\ \E id \in Range(ev.ids) \cap DOMAIN data :
          data[id].category = Null /\ data[id].defaultCategory = capitalizeFirstLetter(DomainEx)
    /\ \E f \in DOMAIN data \ Range(ev.ids) : data[f].category = CatA
    /\ \E v \in Views : feedIdByView[v] # <<>>

\* C16: unfollow(f) removes only f: every other feedId g has the same entry in
\* data and occurs as often in every bucket after the local removal as before.
C16_UnfollowRemovesOnlyF ==
    [][ Runs("unfollow", "call") =>
          \A g \in FeedIds \ {ev'.feedId} :
              /\ g \in DOMAIN data' <=> g \in DOMAIN data
              /\ g \in DOMAIN data => data'[g] = data[g]
              /\ \A v \in Views :
                    Count(feedIdByView'[v], g) = Count(feedIdByView[v], g) ]_vars

\* C18: when the subscriptions request of fetchByView rejects, data and every
\* bucket are as they were: neither sending the request nor its rejection
\* resets a bucket.
C18_FetchRejectNoEffect ==
    [][ (ev'.op = "fetchByView" /\ ev'.phase \in {"call", "reject"}) =>
          /\ data' = data
          /\ feedIdByView' = feedIdByView ]_vars

\* the request of a fetch was rejected and the bucket it would have reset
\* still holds a feed
C18_Witness ==
    /\ Ran("fetchByView", "reject")
    /\ \E v \in Views :
          /\ ev.view \in {v, NoView}
          /\ feedIdByView[v] # <<>>
          /\ \A f \in Range(feedIdByView[v]) : f \in DOMAIN data

\* C13: when the request of markReadByView(view, filter) has succeeded:
\* without a filter every feed whose stored view is view gets unread count 0
\* and no unread count is fetched again; with a filter no unread count
\* changes and the unread counts of view are fetched again exactly once; in
\* both cases the entries of the feeds whose stored view is view are marked
\* read, those of the time range with a filter, and no other feed is touched.
C13_MarkReadByViewEffects ==
    [][ Runs("markReadByView", "resolve") =>
          LET c == ev'.call
              hit == { f \in DOMAIN data : data[f].view = c.view }
          IN /\ c.filter = NoFilter =>
                   /\ \A f \in hit : unread'[f] = 0 /\ entries'[f] = {}
                   /\ io'.unreadFetch = <<>>
             /\ c.filter # NoFilter =>
                   /\ unread' = unread
                   /\ io'.unreadFetch = <<c.view>>
                   /\ \A f \in hit :
                         entries'[f] = { t \in entries[f] :
                                          t < c.filter.startTime \/ t > c.filter.endTime }
             /\ \A f \in FeedIds \ hit :
                   unread'[f] = unread[f] /\ entries'[f] = entries[f] ]_vars

\* a markReadByView with a filter has succeeded: the unread counts of its
\* view are fetched again, a feed of the view keeps its unread count, and a
\* feed of another view keeps its unread entry
C13_Witness ==
    /\ Ran("markReadByView", "resolve")
    /\ ev.call.filter # NoFilter
    /\ io.unreadFetch = <<ev.call.view>>
    /\ \E f \in DOMAIN data : data[f].view = ev.call.view /\ unread[f] > 0
    /\ \E g \in DOMAIN data : data[g].view # ev.call.view /\ entries[g] # {}

\* C19: after clear() the completion of a fetchByView or changeCategoryView
\* that was waiting when clear() ran leaves data and every bucket empty.
C19_ClearedStaysEmpty ==
    [][ (Ran("clear", "call") /\ ev'.phase = "resolve"
           /\ ev'.op \in {"fetchByView", "changeCategoryView"}) =>
          /\ data' = EmptyRecord
          /\ feedIdByView' = emptyDataIdByView ]_vars

\* C20: in every reachable state every subscription in data has a grouping
\* label: a category or a defaultCategory.
C20_AlwaysGrouped ==
    \A f \in DOMAIN data : data[f].category # Null \/ data[f].defaultCategory # Null

\* the block that ran last was a mutation of the store by an unfollow, a
\* fetchByView or a changeCategoryView
AnotherMutationRan ==
    \/ Ran("unfollow", "call")
    \/ Ran("fetchByView", "resolve")
    \/ Ran("changeCategoryView", "resolve")

\* C17: when an unfollow, a fetchByView or another changeCategoryView has
\* changed the store while changeCategoryView waited for its patches, the
\* move still inserts into the bucket of toView only feedIds that have an
\* entry in data and are not yet there, and removes from the bucket of
\* fromView only feedIds it matched.
C17_MoveRespectsBuckets ==
    [][ (Runs("changeCategoryView", "resolve") /\ AnotherMutationRan) =>
          \A c \in Waiting("changeCategoryView") :
              ChangeCategoryViewResolve(c) =>
                  /\ \A f \in Range(c.folderFeedIds) :
                        /\ f \in DOMAIN data
                        /\ Count(feedIdByView'[c.changeToView], f) = 1
                  /\ \A g \in FeedIds \ Range(c.folderFeedIds) :
                        Count(feedIdByView'[c.currentView], g) =
                          Count(feedIdByView[c.currentView], g) ]_vars

----------------------------------------------------------------------------
(* Claims about the Media component *)

\* C21: when the img of a Media component fails while it shows the proxy URL,
\* the component switches to the original src and puts that src into
\* failedList, and neither hides the image nor calls onError; when it fails
\* while it shows the original src, the image is hidden and the caller's
\* onError, if there is one, is called; and a component mounted with a src of
\* failedList starts from the original src although a proxy is asked for.
C21_ProxyFailureFallsBack ==
    [][ /\ Runs("errorHandle", "call") =>
            LET m == media[ev'.slot]
                after == media'[ev'.slot]
            IN IF m.imgSrc # m.src
                 THEN /\ after.imgSrc = m.src
                      /\ m.src \in failedList'
                      /\ after.hidden = FALSE
                      /\ ev'.onError = FALSE
                 ELSE /\ after.imgSrc = m.src
                      /\ failedList' = failedList
                      /\ after.hidden = TRUE
                      /\ ev'.onError = m.hasOnError
        /\ Runs("mount", "call") =>
            LET after == media'[ev'.slot]
            IN /\ after.src \in failedList => after.imgSrc = after.src
               /\ (after.src \notin failedList /\ after.src # Null /\ ev'.proxy # NoProxy)
                     => after.imgSrc # after.src ]_vars

\* the proxy URL of a src failed and then the src itself: the src is in
\* failedList, the image is hidden and onError was called, while a component
\* mounted later with the same src and a proxy shows the original src
C21_Witness ==
    /\ Ran("errorHandle", "call")
    /\ ev.onError = TRUE
    /\ media[ev.slot].hidden
    /\ media[ev.slot].src \in failedList
    /\ \E j \in Slots \ {ev.slot} :
          /\ media[j].mounted
          /\ media[j].src = media[ev.slot].src
          /\ media[j].imgSrc = media[j].src
          /\ ~media[j].hidden

====
